---- MODULE Spec2Model ----
(***************************************************************************)
(* Model of the sudoku engine of sudoku-cli (src/src/sudoku.rs): the       *)
(* Board algorithms (fill_diagonals, fill_remaining, generate_puzzle,      *)
(* count_solutions) and the Sudoku session (update_cell, undo_last_move,   *)
(* check, hint, complete, pause, clear_board, save, load).                 *)
(*                                                                         *)
(* The two recursive searches (fill_remaining, solve_with_limit) are       *)
(* modelled with their call stack made explicit: one action per call and   *)
(* one per return.  Random draws (shuffles) come from bounded families     *)
(* selected by the variable rng.                                           *)
(***************************************************************************)
EXTENDS Integers, Sequences, FiniteSets, TLC

SIZE == 9
SUBGRID_SIZE == 3
MAX_CHECKS == 3
MAX_HINTS == 3
CELL_CHECKED == 1
CELL_CORRECT == 2
CELL_WRITABLE == 4

VARIABLES
    \* --- Sudoku::generate / Board::generate / Board::generate_puzzle ---
    pc,          \* position in the generation code
    rng,         \* outcome of the process-local random generator
    board,       \* Board::generate's `board`, then generate_puzzle's `self`
    puzzle,      \* generate_puzzle's `puzzle`
    num_holes,   \* argument of generate_puzzle
    idx,         \* how many of the shuffled positions were visited
    test_board,  \* the clone count_solutions runs on
    stack,       \* call stack of fill_remaining / solve_with_limit
    call,        \* arguments (row, col) of the pending fill_remaining call
    ret,         \* value returned by the last call that returned
    count,       \* solve_with_limit's `count`
    limit,       \* solve_with_limit's `limit`
    caller,      \* who called count_solutions
    val,         \* argument `value` of the pending is_valid call
    \* --- struct Sudoku ---
    grid, solution, state, movements, start, elapsed, difficulty, checks, hints,
    \* --- environment ---
    file,        \* the bytes of SAVE_FILE, << >> while there is none
    now,         \* the monotonic clock (Instant::now), in ticks
    steps        \* how many operations the application has called

genvars == <<pc, rng, board, puzzle, num_holes, idx, test_board, stack, call,
             ret, count, limit, caller, val>>
sesvars == <<grid, solution, state, movements, start, elapsed, difficulty,
             checks, hints>>
vars == <<genvars, sesvars, file, now, steps>>

----------------------------------------------------------------------------
(* Board                                                                   *)

Idx == 0 .. (SIZE - 1)
Sub == 0 .. (SUBGRID_SIZE - 1)
Digits == 1 .. SIZE
Coords == Idx \X Idx

\* Board::default(): every cell 0
EmptyBoard == [r \in Idx |-> [c \in Idx |-> 0]]

SetMin(S) == CHOOSE x \in S : \A y \in S : x <= y

\* Board::is_valid without the 3x3 subgrid loop
is_valid_no_box(g, row, col, value) ==
    \A i \in Idx : ~(g[row][i] = value \/ g[i][col] = value)

\* Board::is_valid that looks at the row and the subgrid only
is_valid_no_column(g, row, col, value) ==
    /\ \A i \in Idx : g[row][i] # value
    /\ LET start_row == (row \div SUBGRID_SIZE) * SUBGRID_SIZE
           start_col == (col \div SUBGRID_SIZE) * SUBGRID_SIZE
       IN \A i \in Sub : \A j \in Sub :
              g[start_row + i][start_col + j] # value

\* Board::is_valid
is_valid(g, row, col, value) ==
    /\ \A i \in Idx : ~(g[row][i] = value \/ g[i][col] = value)
    /\ LET start_row == (row \div SUBGRID_SIZE) * SUBGRID_SIZE
           start_col == (col \div SUBGRID_SIZE) * SUBGRID_SIZE
       IN \A i \in Sub : \A j \in Sub :
              g[start_row + i][start_col + j] # value

\* numbers.shuffle(rng) on (1..=9): the shuffles the model draws are the
\* affine permutations k |-> a*k + b (mod 9), a coprime to 9
Shuffled(a, b) == [k \in 1 .. SIZE |-> ((a * (k - 1) + b) % SIZE) + 1]

\* positions.shuffle(rng) on the 81 coordinates in row-major order: the
\* affine permutations of the row-major index, a coprime to 81
Positions(a, b) ==
    [k \in 1 .. (SIZE * SIZE) |->
        LET p == (a * (k - 1) + b) % (SIZE * SIZE)
        IN <<p \div SIZE, p % SIZE>>]

\* Board::fill_box: numbers.pop() takes the shuffled digits from the back
fill_box(g, row, col, numbers) ==
    [r \in Idx |-> [c \in Idx |->
        IF r \in row .. (row + SUBGRID_SIZE - 1) /\ c \in col .. (col + SUBGRID_SIZE - 1)
        THEN numbers[SIZE - ((r - row) * SUBGRID_SIZE + (c - col))]
        ELSE g[r][c]]]

\* Board::fill_diagonals: fill_box(i, i) for i = 0, 3, 6, each with a shuffle
\* of its own
fill_diagonals(g, r) ==
    LET b0 == fill_box(g, 0, 0, Shuffled(r.a, r.b))
        b1 == fill_box(b0, SUBGRID_SIZE, SUBGRID_SIZE, Shuffled(r.a, r.b + SUBGRID_SIZE))
    IN fill_box(b1, 2 * SUBGRID_SIZE, 2 * SUBGRID_SIZE,
                Shuffled(r.a, r.b + 2 * SUBGRID_SIZE))

\* the index of the first digit after position k of `numbers` that is_valid
\* accepts at (row, col); 0 when the loop runs out
NextValid(g, row, col, numbers, k) ==
    LET S == {j \in (k + 1) .. SIZE : is_valid(g, row, col, numbers[j])}
    IN IF S = {} THEN 0 ELSE SetMin(S)

\* the first empty cell in row-major order (the two nested loops of
\* solve_with_limit); <<SIZE, SIZE>> when the grid is full
FirstEmpty(g) ==
    LET S == {p \in 0 .. (SIZE * SIZE - 1) : g[p \div SIZE][p % SIZE] = 0}
    IN IF S = {} THEN <<SIZE, SIZE>>
       ELSE LET p == SetMin(S) IN <<p \div SIZE, p % SIZE>>

IsFull(g) == \A r \in Idx : \A c \in Idx : g[r][c] # 0

NumEmpty(g) == Cardinality({p \in Coords : g[p[1]][p[2]] = 0})

Frame(kind, row, col, numbers, k) ==
    [kind |-> kind, row |-> row, col |-> col, numbers |-> numbers, k |-> k]

Top(s) == s[Len(s)]
Pop(s) == SubSeq(s, 1, Len(s) - 1)

----------------------------------------------------------------------------
(* Cell                                                                    *)

HasFlag(flags, bit) == (flags \div bit) % 2 = 1
WithFlag(flags, bit) == IF HasFlag(flags, bit) THEN flags ELSE flags + bit
WithoutFlag(flags, bit) == IF HasFlag(flags, bit) THEN flags - bit ELSE flags

\* Cell::new that makes every cell writable
CellNewAllWritable(value) ==
    [value |-> value, flags |-> CELL_WRITABLE]

\* Cell::new
CellNew(value) ==
    [value |-> value, flags |-> IF value = 0 THEN CELL_WRITABLE ELSE 0]

\* Cell::uncheck that clears CELL_CHECKED only
CellUncheckCheckedOnly(cell) ==
    [cell EXCEPT !.flags = WithoutFlag(@, CELL_CHECKED)]

\* Cell::uncheck
CellUncheck(cell) ==
    [cell EXCEPT !.flags = WithoutFlag(WithoutFlag(@, CELL_CHECKED), CELL_CORRECT)]

\* Cell::check that sets CELL_CORRECT in place of CELL_CHECKED for a right
\* value
CellCheckCorrectOnly(cell, correct) ==
    [cell EXCEPT !.flags =
        IF correct THEN WithFlag(@, CELL_CORRECT)
        ELSE WithFlag(@, CELL_CHECKED)]

\* Cell::check
CellCheck(cell, correct) ==
    [cell EXCEPT !.flags =
        IF correct THEN WithFlag(WithFlag(@, CELL_CHECKED), CELL_CORRECT)
        ELSE WithFlag(@, CELL_CHECKED)]

writable(cell) == HasFlag(cell.flags, CELL_WRITABLE)
checked(cell) == HasFlag(cell.flags, CELL_CHECKED)
correct(cell) == HasFlag(cell.flags, CELL_CORRECT)

None == [some |-> FALSE, at |-> 0]
Some(t) == [some |-> TRUE, at |-> t]

----------------------------------------------------------------------------
(* Difficulty                                                              *)

Difficulties == {"Easy", "Medium", "Hard", "Expert"}

\* Difficulty::num_holes: the values (lo..hi).choose(rng) can return
NumHolesRange(d) ==
    CASE d = "Easy" -> 45 .. (50 - 1)
      [] d = "Medium" -> 50 .. (55 - 1)
      [] d = "Hard" -> 55 .. (60 - 1)
      [] d = "Expert" -> 60 .. (65 - 1)

----------------------------------------------------------------------------
(* Bounds of the model                                                     *)

\* how many of the generator outcomes of RngTable the model draws from
MaxRng == 2

\* generator outcomes: a, b, c select the digit shuffles (fill_box uses
\* Shuffled(a, b + i), the fill_remaining call at (row, col) uses
\* Shuffled(a, b + c*row + col)); pa, pb select the shuffle of positions
RngTable ==
    << [a |-> 4, b |-> 4, c |-> 1, pa |-> 10, pb |-> 0],
       [a |-> 2, b |-> 6, c |-> 2, pa |-> 16, pb |-> 13],
       [a |-> 5, b |-> 4, c |-> 1, pa |-> 64, pb |-> 13] >>

RngSeeds == {RngTable[i] : i \in 1 .. (IF MaxRng < Len(RngTable) THEN MaxRng ELSE Len(RngTable))}

----------------------------------------------------------------------------
(* Sudoku::default()                                                       *)

DefaultGrid == [r \in Idx |-> [c \in Idx |-> [value |-> 0, flags |-> 0]]]

SessionDefault ==
    /\ grid = DefaultGrid
    /\ solution = EmptyBoard
    /\ state = "Running"
    /\ movements = << >>
    /\ start = None
    /\ elapsed = 0
    /\ checks = 0
    /\ hints = 0

----------------------------------------------------------------------------
(* Sudoku::generate(difficulty), step by step                              *)

GenInit ==
    /\ pc = "generate"
    /\ rng \in RngSeeds
    /\ difficulty \in Difficulties
    /\ board = EmptyBoard
    /\ puzzle = EmptyBoard
    /\ test_board = EmptyBoard
    /\ num_holes = 0
    /\ idx = 0
    /\ stack = << >>
    /\ call = <<0, 0>>
    /\ ret = FALSE
    /\ count = 0
    /\ limit = 0
    /\ caller = "none"
    /\ SessionDefault
    /\ now = 0
    /\ val = 0
    /\ file = << >>
    /\ steps = 0

\* Board::generate: board.fill_diagonals(), then the call fill_remaining(0, 0)
FillDiagonals ==
    /\ pc = "generate"
    /\ board' = fill_diagonals(board, rng)
    /\ call' = <<0, 0>>
    /\ pc' = "fill_call"
    /\ UNCHANGED <<rng, puzzle, num_holes, idx, test_board, stack, ret, count,
                   limit, caller, sesvars, val, file, now, steps>>

\* Board::fill_remaining(row, col), from its entry to its first nested call
\* or its return
FillCall ==
    /\ pc = "fill_call"
    /\ LET row == call[1]
           col == call[2]
           numbers == Shuffled(rng.a, rng.b + rng.c * row + col)
       IN IF row = SIZE - 1 /\ col = SIZE
          THEN \* board filled
               /\ ret' = TRUE
               /\ pc' = "fill_ret"
               /\ UNCHANGED <<board, stack, call>>
          ELSE IF col = SIZE
          THEN \* move to next row
               /\ stack' = Append(stack, Frame("tail", row, col, numbers, 0))
               /\ call' = <<row + 1, 0>>
               /\ UNCHANGED <<board, ret, pc>>
          ELSE IF board[row][col] # 0
          THEN \* skip filled cells
               /\ stack' = Append(stack, Frame("tail", row, col, numbers, 0))
               /\ call' = <<row, col + 1>>
               /\ UNCHANGED <<board, ret, pc>>
          ELSE LET k == NextValid(board, row, col, numbers, 0)
               IN IF k = 0
                  THEN /\ ret' = FALSE
                       /\ pc' = "fill_ret"
                       /\ UNCHANGED <<board, stack, call>>
                  ELSE /\ board' = [board EXCEPT ![row][col] = numbers[k]]
                       /\ stack' = Append(stack, Frame("loop", row, col, numbers, k))
                       /\ call' = <<row, col + 1>>
                       /\ UNCHANGED <<ret, pc>>
    /\ UNCHANGED <<rng, puzzle, num_holes, idx, test_board, count, limit,
                   caller, sesvars, val, file, now, steps>>

\* fill_remaining without `self.grid[row][col] = 0` after the last digit
\* failed: this variant returns false with the digit still in the cell
FillReturnKeepsDigit ==
    /\ pc = "fill_ret"
    /\ IF stack = << >>
       THEN /\ pc' = "generated"
            /\ UNCHANGED <<board, stack, call, ret>>
       ELSE LET f == Top(stack)
            IN IF ret \/ f.kind = "tail"
               THEN /\ stack' = Pop(stack)
                    /\ UNCHANGED <<board, call, ret, pc>>
               ELSE LET reset == [board EXCEPT ![f.row][f.col] = 0]
                        k == NextValid(reset, f.row, f.col, f.numbers, f.k)
                    IN IF k = 0
                       THEN /\ stack' = Pop(stack)
                            /\ UNCHANGED <<board, call, ret, pc>>
                       ELSE /\ board' = [reset EXCEPT ![f.row][f.col] = f.numbers[k]]
                            /\ stack' = [stack EXCEPT ![Len(stack)].k = k]
                            /\ call' = <<f.row, f.col + 1>>
                            /\ pc' = "fill_call"
                            /\ UNCHANGED ret
    /\ UNCHANGED <<rng, puzzle, num_holes, idx, test_board, count, limit,
                   caller, sesvars, val, file, now, steps>>

\* a fill_remaining call returned `ret` to the frame on top of the stack;
\* with no frame left, fill_remaining(0, 0) returned to Board::generate
FillReturn ==
    /\ pc = "fill_ret"
    /\ IF stack = << >>
       THEN /\ pc' = "generated"
            /\ UNCHANGED <<board, stack, call, ret>>
       ELSE LET f == Top(stack)
            IN IF ret \/ f.kind = "tail"
               THEN \* `return true`, or `return self.fill_remaining(..)`
                    /\ stack' = Pop(stack)
                    /\ UNCHANGED <<board, call, ret, pc>>
               ELSE LET reset == [board EXCEPT ![f.row][f.col] = 0]
                        k == NextValid(reset, f.row, f.col, f.numbers, f.k)
                    IN IF k = 0
                       THEN /\ board' = reset
                            /\ stack' = Pop(stack)
                            /\ UNCHANGED <<call, ret, pc>>
                       ELSE /\ board' = [reset EXCEPT ![f.row][f.col] = f.numbers[k]]
                            /\ stack' = [stack EXCEPT ![Len(stack)].k = k]
                            /\ call' = <<f.row, f.col + 1>>
                            /\ pc' = "fill_call"
                            /\ UNCHANGED ret
    /\ UNCHANGED <<rng, puzzle, num_holes, idx, test_board, count, limit,
                   caller, sesvars, val, file, now, steps>>

\* Sudoku::generate: difficulty.num_holes() is drawn, and generate_puzzle
\* starts: positions are shuffled, puzzle = self.clone()
GeneratePuzzle ==
    /\ pc = "generated"
    /\ \E n \in NumHolesRange(difficulty) : num_holes' = n
    /\ puzzle' = board
    /\ idx' = 0
    /\ pc' = "dig"
    /\ UNCHANGED <<rng, board, test_board, stack, call, ret, count, limit,
                   caller, sesvars, val, file, now, steps>>

\* positions.iter().take(num_holes)
Taken == IF num_holes < SIZE * SIZE THEN num_holes ELSE SIZE * SIZE

\* one iteration of generate_puzzle's loop, up to the call count_solutions(2)
DigStep ==
    /\ pc = "dig"
    /\ idx < Taken
    /\ LET p == Positions(rng.pa, rng.pb)[idx + 1]
       IN /\ puzzle' = [puzzle EXCEPT ![p[1]][p[2]] = 0]
          /\ test_board' = puzzle'
    /\ count' = 0
    /\ limit' = 2
    /\ caller' = "dig"
    /\ pc' = "solve_call"
    /\ UNCHANGED <<rng, board, num_holes, idx, stack, call, ret, sesvars, val, file, now, steps>>

\* solve_with_limit ending in `*count > limit`: this variant stops one
\* solution late
SolveCallStopsLate ==
    /\ pc = "solve_call"
    /\ LET e == FirstEmpty(test_board)
           row == e[1]
           col == e[2]
           numbers == [k \in 1 .. SIZE |-> k]
       IN IF row = SIZE
          THEN /\ count' = count + 1
               /\ ret' = (count + 1 > limit)
               /\ pc' = "solve_ret"
               /\ UNCHANGED <<test_board, stack>>
          ELSE LET k == NextValid(test_board, row, col, numbers, 0)
               IN IF k = 0
                  THEN /\ ret' = FALSE
                       /\ pc' = "solve_ret"
                       /\ UNCHANGED <<test_board, stack, count>>
                  ELSE /\ test_board' = [test_board EXCEPT ![row][col] = numbers[k]]
                       /\ stack' = Append(stack, Frame("loop", row, col, numbers, k))
                       /\ UNCHANGED <<ret, pc, count>>
    /\ UNCHANGED <<rng, board, puzzle, num_holes, idx, call, limit, caller,
                   sesvars, val, file, now, steps>>

\* Board::solve_with_limit, from its entry to its first nested call or its
\* return
SolveCall ==
    /\ pc = "solve_call"
    /\ LET e == FirstEmpty(test_board)
           row == e[1]
           col == e[2]
           numbers == [k \in 1 .. SIZE |-> k]
       IN IF row = SIZE
          THEN \* no empty cell: *count += 1; *count >= limit
               /\ count' = count + 1
               /\ ret' = (count + 1 >= limit)
               /\ pc' = "solve_ret"
               /\ UNCHANGED <<test_board, stack>>
          ELSE LET k == NextValid(test_board, row, col, numbers, 0)
               IN IF k = 0
                  THEN /\ ret' = FALSE
                       /\ pc' = "solve_ret"
                       /\ UNCHANGED <<test_board, stack, count>>
                  ELSE /\ test_board' = [test_board EXCEPT ![row][col] = numbers[k]]
                       /\ stack' = Append(stack, Frame("loop", row, col, numbers, k))
                       /\ UNCHANGED <<ret, pc, count>>
    /\ UNCHANGED <<rng, board, puzzle, num_holes, idx, call, limit, caller,
                   sesvars, val, file, now, steps>>

\* a solve_with_limit call returned `ret` to the frame on top of the stack;
\* with no frame left, count_solutions returns count to its caller
SolveReturn ==
    /\ pc = "solve_ret"
    /\ IF stack = << >>
       THEN /\ pc' = IF caller = "dig" THEN "dig_decide" ELSE "tested"
            /\ UNCHANGED <<test_board, stack, ret>>
       ELSE LET f == Top(stack)
            IN IF ret
               THEN /\ stack' = Pop(stack)
                    /\ UNCHANGED <<test_board, ret, pc>>
               ELSE LET reset == [test_board EXCEPT ![f.row][f.col] = 0]
                        k == NextValid(reset, f.row, f.col, f.numbers, f.k)
                    IN IF k = 0
                       THEN /\ test_board' = reset
                            /\ stack' = Pop(stack)
                            /\ UNCHANGED <<ret, pc>>
                       ELSE /\ test_board' = [reset EXCEPT ![f.row][f.col] = f.numbers[k]]
                            /\ stack' = [stack EXCEPT ![Len(stack)].k = k]
                            /\ pc' = "solve_call"
                            /\ UNCHANGED ret
    /\ UNCHANGED <<rng, board, puzzle, num_holes, idx, call, count, limit,
                   caller, sesvars, val, file, now, steps>>

\* generate_puzzle's `puzzle.grid[row][col] = backup` of a removal that
\* does not leave exactly one solution; this variant never restores
DigRestoreNever(p) == puzzle

\* generate_puzzle: the puzzle after the test of the removal at position p
DigRestore(p) ==
    IF count # 1 THEN [puzzle EXCEPT ![p[1]][p[2]] = board[p[1]][p[2]]]
    ELSE puzzle

\* the rest of the loop iteration, after count_solutions(2) returned
DigDecide ==
    /\ pc = "dig_decide"
    /\ puzzle' = DigRestore(Positions(rng.pa, rng.pb)[idx + 1])
    /\ idx' = idx + 1
    /\ pc' = "dig"
    /\ UNCHANGED <<rng, board, num_holes, test_board, stack, call, ret, count,
                   limit, caller, sesvars, val, file, now, steps>>

\* generate_puzzle returned; Sudoku::generate builds the session
NewSession ==
    /\ pc = "dig"
    /\ idx = Taken
    /\ grid' = [r \in Idx |-> [c \in Idx |-> CellNew(puzzle[r][c])]]
    /\ solution' = board
    /\ start' = Some(now)
    /\ state' = "Running"
    /\ movements' = << >>
    /\ elapsed' = 0
    /\ checks' = 0
    /\ hints' = 0
    /\ pc' = "session"
    /\ UNCHANGED <<rng, board, puzzle, num_holes, idx, test_board, stack, call,
                   ret, count, limit, caller, difficulty, val, file, now, steps>>

\* the uniqueness test of the returned puzzle: count_solutions(2) on a clone
TestUnique ==
    /\ pc = "session"
    /\ caller = "dig"
    /\ test_board' = puzzle
    /\ count' = 0
    /\ limit' = 2
    /\ caller' = "test"
    /\ pc' = "solve_call"
    /\ UNCHANGED <<rng, board, puzzle, num_holes, idx, stack, call, ret,
                   sesvars, val, file, now, steps>>

GenNext ==
    \/ FillDiagonals
    \/ FillCall
    \/ FillReturn
    \/ GeneratePuzzle
    \/ DigStep
    \/ SolveCall
    \/ SolveReturn
    \/ DigDecide
    \/ NewSession
    \/ TestUnique

GenSpec == GenInit /\ [][GenNext]_vars

----------------------------------------------------------------------------
(* Bounds of the session model                                             *)

\* cells the loaded game still has empty
MaxOpen == 2
\* how many operations the application calls in a run
MaxSteps == 4
\* the clock stops at MaxTime ticks
MaxTime == 2
\* clock ticks per second (Duration keeps fractions of a second)
TicksPerSec == 2
\* how many shuffles of the positions hint() draws from
MaxHintOrders == 1

----------------------------------------------------------------------------
(* Save, Sudoku::save, Sudoku::load                                        *)

\* Duration::as_secs and Duration::from_secs
as_secs(d) == d \div TicksPerSec
from_secs(n) == n * TicksPerSec

\* Sudoku::elapsed
Elapsed ==
    IF state = "Running" THEN elapsed + (now - start.at) ELSE elapsed

\* the variant index serde gives each Difficulty
DifficultyIndex(d) ==
    CASE d = "Easy" -> 0 [] d = "Medium" -> 1 [] d = "Hard" -> 2 [] d = "Expert" -> 3
DifficultyOf(i) ==
    CASE i = 0 -> "Easy" [] i = 1 -> "Medium" [] i = 2 -> "Hard" [] i = 3 -> "Expert"

\* bincode: fixed-width little-endian integers
LittleEndian(n, width) ==
    LET RECURSIVE Shift(_, _)
        Shift(m, i) == IF i = 0 THEN m ELSE Shift(m \div 256, i - 1)
    IN [i \in 1 .. width |-> Shift(n, i - 1) % 256]
FromLittleEndian(bytes, from, width) ==
    LET RECURSIVE Horner(_)
        Horner(i) == IF i > width THEN 0
                     ELSE bytes[from + i - 1] + 256 * Horner(i + 1)
    IN Horner(1)

GridLen == 2 * SIZE * SIZE
SolutionLen == SIZE * SIZE
SaveLen == GridLen + SolutionLen + 4 + 8 + 1 + 1

\* Sudoku::save builds the Save: elapsed is kept in whole seconds
SaveOf(g, sol, d, el, ch, hi) ==
    [grid |-> g, solution |-> sol, difficulty |-> d, elapsed |-> as_secs(el),
     checks |-> ch, hints |-> hi]

\* bincode::serialize(&save): the fields in declaration order, arrays
\* without length, a Cell as its value byte and its flags byte, the enum as
\* a u32 variant index, elapsed as a u64
Serialize(save) ==
    [i \in 1 .. GridLen |->
        LET cell == save.grid[((i - 1) \div 2) \div SIZE][((i - 1) \div 2) % SIZE]
        IN IF (i - 1) % 2 = 0 THEN cell.value % 256 ELSE cell.flags % 256]
    \o [i \in 1 .. SolutionLen |-> save.solution[(i - 1) \div SIZE][(i - 1) % SIZE] % 256]
    \o LittleEndian(DifficultyIndex(save.difficulty), 4)
    \o LittleEndian(save.elapsed, 8)
    \o << save.checks % 256, save.hints % 256 >>

\* bincode::deserialize(bytes): an error on input that is too short or
\* names no variant of Difficulty
Deserialize(bytes) ==
    IF Len(bytes) < SaveLen \/ FromLittleEndian(bytes, GridLen + SolutionLen + 1, 4) > 3
    THEN [ok |-> FALSE]
    ELSE [ok |-> TRUE,
          save |->
            [grid |-> [r \in Idx |-> [c \in Idx |->
                          [value |-> bytes[2 * (r * SIZE + c) + 1],
                           flags |-> bytes[2 * (r * SIZE + c) + 2]]]],
             solution |-> [r \in Idx |-> [c \in Idx |-> bytes[GridLen + r * SIZE + c + 1]]],
             difficulty |-> DifficultyOf(FromLittleEndian(bytes, GridLen + SolutionLen + 1, 4)),
             elapsed |-> FromLittleEndian(bytes, GridLen + SolutionLen + 5, 8),
             checks |-> bytes[GridLen + SolutionLen + 13],
             hints |-> bytes[GridLen + SolutionLen + 14]]]

\* Sudoku::from_save that forgets the hints used
from_save_no_hints(save, t) ==
    [grid |-> save.grid, solution |-> save.solution, state |-> "Running",
     movements |-> << >>, start |-> Some(t), elapsed |-> from_secs(save.elapsed),
     difficulty |-> save.difficulty, checks |-> save.checks, hints |-> 0]

\* Sudoku::from_save that resumes the session paused, its clock stopped
from_save_paused(save, t) ==
    [grid |-> save.grid, solution |-> save.solution, state |-> "Paused",
     movements |-> << >>, start |-> None, elapsed |-> from_secs(save.elapsed),
     difficulty |-> save.difficulty, checks |-> save.checks, hints |-> save.hints]

\* Sudoku::from_save at clock time t: the session as a record of its fields
from_save(save, t) ==
    [grid |-> save.grid, solution |-> save.solution, state |-> "Running",
     movements |-> << >>, start |-> Some(t), elapsed |-> from_secs(save.elapsed),
     difficulty |-> save.difficulty, checks |-> save.checks, hints |-> save.hints]

\* Sudoku::save
save_bytes == Serialize(SaveOf(grid, solution, difficulty, Elapsed, checks, hints))

\* Sudoku::load
load(bytes, t) ==
    LET d == Deserialize(bytes)
    IN IF d.ok THEN [ok |-> TRUE, game |-> from_save(d.save, t)] ELSE [ok |-> FALSE]

\* the variables hold session s
IsSession(s) ==
    /\ grid = s.grid
    /\ solution = s.solution
    /\ state = s.state
    /\ movements = s.movements
    /\ start = s.start
    /\ elapsed = s.elapsed
    /\ difficulty = s.difficulty
    /\ checks = s.checks
    /\ hints = s.hints

----------------------------------------------------------------------------
(* The games the session model starts from                                 *)

\* a board Board::generate returns, and the puzzle generate_puzzle(45) digs
\* from it (both reached under GenSpec: GeneratedGameReached)
Solution1 ==
    [r \in Idx |-> [c \in Idx |->
      << <<1, 6, 2, 8, 4, 9, 5, 7, 3>>,
         <<7, 3, 8, 2, 5, 6, 9, 4, 1>>,
         <<4, 9, 5, 3, 1, 7, 8, 2, 6>>,
         <<8, 2, 3, 4, 9, 5, 6, 1, 7>>,
         <<9, 5, 7, 1, 6, 2, 3, 8, 4>>,
         <<6, 1, 4, 7, 3, 8, 2, 5, 9>>,
         <<5, 4, 6, 9, 2, 1, 7, 3, 8>>,
         <<2, 8, 1, 6, 7, 3, 4, 9, 5>>,
         <<3, 7, 9, 5, 8, 4, 1, 6, 2>> >>[r + 1][c + 1]]]

Puzzle1 ==
    [r \in Idx |-> [c \in Idx |->
      << <<0, 6, 2, 8, 4, 0, 0, 0, 0>>,
         <<0, 0, 8, 2, 5, 6, 9, 0, 0>>,
         <<0, 0, 0, 3, 1, 7, 8, 2, 0>>,
         <<0, 0, 0, 0, 9, 5, 6, 1, 0>>,
         <<0, 0, 0, 0, 0, 2, 3, 8, 4>>,
         <<6, 0, 0, 0, 0, 0, 2, 5, 9>>,
         <<5, 4, 0, 0, 0, 0, 0, 3, 8>>,
         <<2, 8, 1, 0, 0, 0, 0, 0, 5>>,
         <<3, 7, 9, 5, 0, 0, 0, 0, 0>> >>[r + 1][c + 1]]]

\* the holes of Puzzle1 in row-major order, as row-major indices
Holes1 == {p \in 0 .. (SIZE * SIZE - 1) : Puzzle1[p \div SIZE][p % SIZE] = 0}

\* the first MaxOpen holes: the cells the saved game has not solved yet
OpenCells ==
    {p \in Holes1 : Cardinality({q \in Holes1 : q < p}) < MaxOpen}

\* the grid of the game generated from Puzzle1 after the player entered the
\* solution's digit in every hole but the OpenCells, left the first of them
\* empty and entered a wrong digit in the others (update_cell leaves an
\* entry writable and unchecked)
InProgressGrid ==
    [r \in Idx |-> [c \in Idx |->
        IF Puzzle1[r][c] # 0 THEN CellNew(Puzzle1[r][c])
        ELSE IF (r * SIZE + c) = SetMin(OpenCells) THEN CellNew(0)
        ELSE IF (r * SIZE + c) \in OpenCells
             THEN [value |-> (Solution1[r][c] % SIZE) + 1, flags |-> CELL_WRITABLE]
        ELSE [value |-> Solution1[r][c], flags |-> CELL_WRITABLE]]]

\* the save files the player loads: the generated game as saved at once,
\* and as saved in progress after one second of play, two checks and two
\* hints (the entries made since are unchecked)
SavedGames ==
    { Serialize(SaveOf([r \in Idx |-> [c \in Idx |-> CellNew(Puzzle1[r][c])]],
                       Solution1, "Easy", 0, 0, 0)),
      Serialize(SaveOf(InProgressGrid, Solution1, "Easy", from_secs(1), 2, 2)) }

----------------------------------------------------------------------------
(* Inputs of the session model                                             *)

\* where the player's cursor goes, as (x, y): the open cells and one clue
EditCells ==
    {<<p % SIZE, p \div SIZE>> : p \in OpenCells}
    \cup {<<p % SIZE, p \div SIZE>> : p \in {SetMin((0 .. (SIZE * SIZE - 1)) \ Holes1)}}

\* what the player types at (x, y): clear, the right digit, a wrong digit
EditValues(x, y) == {0, solution[y][x], (solution[y][x] % SIZE) + 1}

\* the shuffles of positions hint() draws, as arguments of Positions
HintOrderTable == << <<16, 13>>, <<10, 0>>, <<64, 13>> >>
HintOrders ==
    {HintOrderTable[i] :
        i \in 1 .. (IF MaxHintOrders < Len(HintOrderTable) THEN MaxHintOrders
                    ELSE Len(HintOrderTable))}

----------------------------------------------------------------------------
(* Sudoku: the session operations                                          *)

\* Sudoku::is_running that takes a paused session for a running one
is_running_or_paused == state \in {"Running", "Paused"}

\* Sudoku::is_running
is_running == state = "Running"

\* Sudoku::can_check without the budget
can_check_unbounded == is_running

\* Sudoku::can_check
can_check == is_running /\ checks < MAX_CHECKS

\* Sudoku::can_hint
can_hint == is_running /\ hints < MAX_HINTS

\* Sudoku::is_solved that only looks for an empty cell
is_solved_when_full(g) ==
    \A y \in Idx : \A x \in Idx : g[y][x].value # 0

\* Sudoku::is_solved on grid g
is_solved(g) ==
    \A y \in Idx : \A x \in Idx : g[y][x].value = solution[y][x]

\* update_cell's guard without the test of the cell's writable flag
update_accepted_any_cell(x, y) == is_running

\* update_cell's guard: the edit is accepted
update_accepted(x, y) == is_running /\ writable(grid[y][x])

\* clear_board's guard without the test of the state
clear_accepted_any_state == TRUE

\* clear_board's guard
clear_accepted == is_running

\* the application calls an operation of the session
Called ==
    /\ pc = "session"
    /\ steps < MaxSteps
    /\ steps' = steps + 1

\* Sudoku::update_cell
UpdateCell(x, y, value) ==
    /\ Called
    /\ IF ~update_accepted(x, y)
       THEN UNCHANGED sesvars
       ELSE /\ LET old == grid[y][x].value
                   g == [grid EXCEPT ![y][x] = CellUncheck([@ EXCEPT !.value = value])]
               IN /\ grid' = g
                  /\ movements' = Append(movements, [x |-> x, y |-> y, old |-> old])
                  /\ IF is_solved(g)
                     THEN elapsed' = Elapsed /\ state' = "Won"
                     ELSE UNCHANGED <<elapsed, state>>
            /\ UNCHANGED <<solution, start, difficulty, checks, hints>>
    /\ UNCHANGED <<genvars, file, now>>

\* the value undo_last_move returns: << >> for None, <<x, y>> for Some((x, y))
undo_result ==
    IF ~is_running \/ movements = << >> THEN << >>
    ELSE << Top(movements).x, Top(movements).y >>

\* Sudoku::undo_last_move that undoes a default Move (0, 0, old 0) when the
\* history is empty
UndoLastMoveOrDefault ==
    /\ Called
    /\ IF ~is_running
       THEN UNCHANGED sesvars
       ELSE LET mv == IF movements = << >> THEN [x |-> 0, y |-> 0, old |-> 0]
                      ELSE Top(movements)
            IN /\ movements' = Pop(movements)
               /\ grid' = [grid EXCEPT ![mv.y][mv.x].value = mv.old]
               /\ UNCHANGED <<solution, state, start, elapsed, difficulty, checks, hints>>
    /\ UNCHANGED <<genvars, file, now>>

\* Sudoku::undo_last_move that takes the oldest Move of the history
UndoOldestMove ==
    /\ Called
    /\ IF ~is_running \/ movements = << >>
       THEN UNCHANGED sesvars
       ELSE LET mv == Head(movements)
            IN /\ movements' = Tail(movements)
               /\ grid' = [grid EXCEPT ![mv.y][mv.x].value = mv.old]
               /\ UNCHANGED <<solution, state, start, elapsed, difficulty, checks, hints>>
    /\ UNCHANGED <<genvars, file, now>>

\* Sudoku::undo_last_move
UndoLastMove ==
    /\ Called
    /\ IF ~is_running \/ movements = << >>
       THEN UNCHANGED sesvars
       ELSE LET mv == Top(movements)
            IN /\ movements' = Pop(movements)
               /\ grid' = [grid EXCEPT ![mv.y][mv.x].value = mv.old]
               /\ UNCHANGED <<solution, state, start, elapsed, difficulty, checks, hints>>
    /\ UNCHANGED <<genvars, file, now>>

\* the cells check() verifies, were it to skip the test of cell.checked()
CheckEligibleAgain(cell) == writable(cell) /\ cell.value # 0

\* the cells check() verifies
CheckEligible(cell) == writable(cell) /\ cell.value # 0 /\ ~checked(cell)

\* Sudoku::check
Check ==
    /\ Called
    /\ IF ~can_check
       THEN UNCHANGED sesvars
       ELSE /\ grid' = [i \in Idx |-> [j \in Idx |->
                          IF CheckEligible(grid[i][j])
                          THEN CellCheck(grid[i][j], grid[i][j].value = solution[i][j])
                          ELSE grid[i][j]]]
            /\ checks' = IF \E i \in Idx : \E j \in Idx : CheckEligible(grid[i][j])
                         THEN (checks + 1) % 256 ELSE checks
            /\ UNCHANGED <<solution, state, movements, start, elapsed, difficulty, hints>>
    /\ UNCHANGED <<genvars, file, now>>

\* Sudoku::hint without the test that the cell is empty
HintOverEntries(order) ==
    /\ Called
    /\ LET positions == Positions(order[1], order[2])
           RECURSIVE Scan(_)
           Scan(k) ==
               IF k > SIZE * SIZE THEN 0
               ELSE IF writable(grid[positions[k][1]][positions[k][2]])
               THEN k
               ELSE Scan(k + 1)
           first == Scan(1)
       IN IF ~can_hint \/ first = 0
          THEN UNCHANGED sesvars
          ELSE LET y == positions[first][1]
                   x == positions[first][2]
               IN /\ grid' = [grid EXCEPT ![y][x] =
                                 CellCheck([@ EXCEPT !.value = solution[y][x]], TRUE)]
                  /\ hints' = (hints + 1) % 256
                  /\ UNCHANGED <<solution, state, movements, start, elapsed,
                                 difficulty, checks>>
    /\ UNCHANGED <<genvars, file, now>>

\* Sudoku::hint, with the positions shuffled as Positions(order)
Hint(order) ==
    /\ Called
    /\ LET positions == Positions(order[1], order[2])
           \* the loop over positions: the index of the first empty unlocked
           \* cell, 0 when the loop runs out
           RECURSIVE Scan(_)
           Scan(k) ==
               IF k > SIZE * SIZE THEN 0
               ELSE IF /\ writable(grid[positions[k][1]][positions[k][2]])
                       /\ grid[positions[k][1]][positions[k][2]].value = 0
               THEN k
               ELSE Scan(k + 1)
           first == Scan(1)
       IN IF ~can_hint \/ first = 0
          THEN UNCHANGED sesvars
          ELSE LET y == positions[first][1]
                   x == positions[first][2]
               IN /\ grid' = [grid EXCEPT ![y][x] =
                                 CellCheck([@ EXCEPT !.value = solution[y][x]], TRUE)]
                  /\ hints' = (hints + 1) % 256
                  /\ UNCHANGED <<solution, state, movements, start, elapsed,
                                 difficulty, checks>>
    /\ UNCHANGED <<genvars, file, now>>

\* Sudoku::complete that copies the player's entries over the solution
CompleteIntoSolution ==
    /\ Called
    /\ IF ~is_running
       THEN UNCHANGED sesvars
       ELSE /\ solution' = [y \in Idx |-> [x \in Idx |->
                              IF ~writable(grid[y][x]) \/ grid[y][x].value = 0
                              THEN solution[y][x] ELSE grid[y][x].value]]
            /\ elapsed' = Elapsed
            /\ state' = "Solved"
            /\ UNCHANGED <<grid, movements, start, difficulty, checks, hints>>
    /\ UNCHANGED <<genvars, file, now>>

\* Sudoku::complete
Complete ==
    /\ Called
    /\ IF ~is_running
       THEN UNCHANGED sesvars
       ELSE /\ grid' = [y \in Idx |-> [x \in Idx |->
                          IF ~writable(grid[y][x]) THEN grid[y][x]
                          ELSE CellCheck([grid[y][x] EXCEPT !.value = solution[y][x]],
                                         grid[y][x].value = 0
                                         \/ grid[y][x].value = solution[y][x])]]
            /\ elapsed' = Elapsed
            /\ state' = "Solved"
            /\ UNCHANGED <<solution, movements, start, difficulty, checks, hints>>
    /\ UNCHANGED <<genvars, file, now>>

\* Sudoku::toggle_pause that forgets the time played since the last resume
TogglePauseDroppingTime ==
    /\ Called
    /\ IF state = "Paused"
       THEN /\ start' = Some(now)
            /\ state' = "Running"
            /\ UNCHANGED elapsed
       ELSE IF state = "Running"
       THEN /\ start' = None
            /\ state' = "Paused"
            /\ UNCHANGED elapsed
       ELSE UNCHANGED <<start, state, elapsed>>
    /\ UNCHANGED <<grid, solution, movements, difficulty, checks, hints, genvars,
                   file, now>>

\* Sudoku::toggle_pause that resumes without `self.start = Some(..)`
TogglePauseNoRestart ==
    /\ Called
    /\ IF state = "Paused"
       THEN /\ state' = "Running"
            /\ UNCHANGED <<start, elapsed>>
       ELSE IF state = "Running"
       THEN /\ elapsed' = elapsed + (now - start.at)
            /\ start' = None
            /\ state' = "Paused"
       ELSE UNCHANGED <<start, state, elapsed>>
    /\ UNCHANGED <<grid, solution, movements, difficulty, checks, hints, genvars, file, now>>

\* Sudoku::toggle_pause
TogglePause ==
    /\ Called
    /\ IF state = "Paused"
       THEN /\ start' = Some(now)
            /\ state' = "Running"
            /\ UNCHANGED elapsed
       ELSE IF state = "Running"
       THEN /\ elapsed' = elapsed + (now - start.at)
            /\ start' = None
            /\ state' = "Paused"
       ELSE UNCHANGED <<start, state, elapsed>>
    /\ UNCHANGED <<grid, solution, movements, difficulty, checks, hints, genvars, file, now>>

\* Sudoku::pause
Pause ==
    /\ pc = "session"
    /\ IF is_running THEN TogglePause ELSE Called /\ UNCHANGED <<sesvars, genvars, file, now>>

\* Sudoku::clear_board without the test of cell.writable()
ClearBoardEveryCell ==
    /\ Called
    /\ IF ~clear_accepted
       THEN UNCHANGED grid
       ELSE grid' = [y \in Idx |-> [x \in Idx |-> [grid[y][x] EXCEPT !.value = 0]]]
    /\ UNCHANGED <<solution, state, movements, start, elapsed, difficulty, checks,
                   hints, genvars, file, now>>

\* Sudoku::clear_board
ClearBoard ==
    /\ Called
    /\ IF ~clear_accepted
       THEN UNCHANGED grid
       ELSE grid' = [y \in Idx |-> [x \in Idx |->
                        IF writable(grid[y][x]) THEN [grid[y][x] EXCEPT !.value = 0]
                        ELSE grid[y][x]]]
    /\ UNCHANGED <<solution, state, movements, start, elapsed, difficulty, checks,
                   hints, genvars, file, now>>

\* App::save_game: SAVE_FILE holds the bytes Sudoku::save returns
SaveGame ==
    /\ Called
    /\ file' = save_bytes
    /\ UNCHANGED <<sesvars, genvars, now>>

\* App::load_game: the session is replaced by Sudoku::load of SAVE_FILE
LoadGame ==
    /\ Called
    /\ LET r == load(file, now)
       IN /\ r.ok
          /\ grid' = r.game.grid
          /\ solution' = r.game.solution
          /\ state' = r.game.state
          /\ movements' = r.game.movements
          /\ start' = r.game.start
          /\ elapsed' = r.game.elapsed
          /\ difficulty' = r.game.difficulty
          /\ checks' = r.game.checks
          /\ hints' = r.game.hints
    /\ UNCHANGED <<genvars, file, now>>

\* the clock advances
Tick ==
    /\ Called
    /\ now < MaxTime
    /\ now' = now + 1
    /\ UNCHANGED <<genvars, sesvars, file>>

\* App::load_game at start-up: the session is Sudoku::load of a save file
Init ==
    /\ pc = "session"
    /\ rng = RngTable[1]
    /\ board = Solution1
    /\ puzzle = Puzzle1
    /\ test_board = Puzzle1
    /\ num_holes = 45
    /\ idx = 45
    /\ stack = << >>
    /\ call = <<0, 0>>
    /\ ret = FALSE
    /\ count = 1
    /\ limit = 2
    /\ caller = "test"
    /\ val = 0
    /\ now = 0
    /\ steps = 0
    /\ file \in SavedGames
    /\ LET r == load(file, now) IN r.ok /\ IsSession(r.game)

\* an operation on the session in play (load_game replaces the session)
SessionOp ==
    \/ \E c \in EditCells : \E v \in EditValues(c[1], c[2]) : UpdateCell(c[1], c[2], v)
    \/ UndoLastMove
    \/ Check
    \/ \E o \in HintOrders : Hint(o)
    \/ Complete
    \/ TogglePause
    \/ Pause
    \/ ClearBoard

Next ==
    \/ SessionOp
    \/ SaveGame
    \/ LoadGame
    \/ Tick

Spec == Init /\ [][Next]_vars

----------------------------------------------------------------------------
(* Board::is_valid on its own: the boards it is asked about                *)

\* the digit of the boards that hold a single digit
ExampleDigit == 5

\* boards with one digit placed, boards as fill_diagonals leaves them, a
\* generated puzzle and its full solution
ValidBoards ==
    {[EmptyBoard EXCEPT ![p[1]][p[2]] = ExampleDigit] : p \in Coords}
    \cup {fill_diagonals(EmptyBoard, r) : r \in RngSeeds}
    \cup {Puzzle1, Solution1}

ValidInit ==
    /\ pc = "is_valid"
    /\ rng = RngTable[1]
    /\ difficulty = "Easy"
    /\ board \in ValidBoards
    /\ puzzle = EmptyBoard
    /\ test_board = EmptyBoard
    /\ num_holes = 0
    /\ idx = 0
    /\ stack = << >>
    /\ call = <<0, 0>>
    /\ ret = FALSE
    /\ count = 0
    /\ limit = 0
    /\ caller = "none"
    /\ SessionDefault
    /\ now = 0
    /\ val = 0
    /\ file = << >>
    /\ steps = 0

\* a call board.is_valid(row, col, value) and its return value
IsValidCall ==
    /\ pc = "is_valid"
    /\ \E row \in Idx : \E col \in Idx : \E value \in Digits :
          /\ call' = <<row, col>>
          /\ val' = value
          /\ ret' = is_valid(board, row, col, value)
    /\ pc' = "is_valid_ret"
    /\ UNCHANGED <<rng, board, puzzle, num_holes, idx, test_board, stack, count,
                   limit, caller, sesvars, file, now, steps>>

ValidNext == IsValidCall

ValidSpec == ValidInit /\ [][ValidNext]_vars

----------------------------------------------------------------------------
(* Properties of generation (checked under GenSpec)                        *)

\* every row, every column and every 3x3 box of g is a permutation of 1..9
IsSolvedBoard(g) ==
    /\ \A r \in Idx : {g[r][c] : c \in Idx} = Digits
    /\ \A c \in Idx : {g[r][c] : r \in Idx} = Digits
    /\ \A br \in Sub : \A bc \in Sub :
          {g[br * SUBGRID_SIZE + i][bc * SUBGRID_SIZE + j] : i \in Sub, j \in Sub} = Digits

\* the board Board::generate returned is in `board` from here on
BoardReturned == pc \notin {"generate", "fill_call", "fill_ret"}

\* generate_puzzle returned and the session is built
PuzzleReturned == pc = "session" \/ caller = "test"

\* C1: the puzzle generate_puzzle returns has exactly one completion, the
\* seed board: count_solutions(2) on it returns 1, and the only full grid
\* its search reaches is the seed board
C1_UniqueSolution ==
    /\ (pc = "tested" => count = 1)
    /\ (caller = "test" /\ IsFull(test_board) => test_board = board)

C1_Witness ==
    /\ pc = "tested"
    /\ count = 1
    /\ NumEmpty(puzzle) >= 36
    /\ NumEmpty(puzzle) < num_holes

\* C2: the board Board::generate returns has no empty cell, and every row,
\* column and 3x3 box of it is a permutation of 1..9
C2_GeneratedBoardValid ==
    BoardReturned => IsFull(board) /\ IsSolvedBoard(board)

C2_Witness ==
    /\ pc = "generated"
    /\ IsFull(board)
    /\ stack = << >>
    /\ ret

\* C3 (as claimed): the number of empty cells of the session's puzzle grid
\* lies within the range of its difficulty
C3_HolesInRange ==
    PuzzleReturned =>
        Cardinality({p \in Coords : grid[p[1]][p[2]].value = 0}) \in NumHolesRange(difficulty)


\* Sudoku::generate returns the game the session model starts from
GeneratedGameReached ==
    /\ pc = "session"
    /\ board = Solution1
    /\ puzzle = Puzzle1
    /\ grid = [r \in Idx |-> [c \in Idx |-> CellNew(Puzzle1[r][c])]]
    /\ solution = Solution1

----------------------------------------------------------------------------
(* Properties of the session (checked under Spec)                          *)

\* every cell of the puzzle grid holds its solution value
GridEqualsSolution ==
    \A p \in Coords : grid[p[1]][p[2]].value = solution[p[1]][p[2]]

GridEqualsSolutionNext ==
    \A p \in Coords : grid'[p[1]][p[2]].value = solution'[p[1]][p[2]]

Terminal == state \in {"Won", "Solved"}

\* C4 (as claimed): the operation after which every cell of the puzzle grid
\* equals its solution value leaves the session Won or Solved
C4_CompletingOperationEndsGame ==
    [][SessionOp /\ ~GridEqualsSolution /\ GridEqualsSolutionNext
          => state' \in {"Won", "Solved"}]_vars

\* C5: the state is Won only when every cell equals its solution value, and
\* a step into Won is an accepted update_cell whose result is the solved grid
C5_WonOnlyWhenSolved ==
    /\ [](state = "Won" => GridEqualsSolution)
    /\ [][state # "Won" /\ state' = "Won"
            => /\ state = "Running"
               /\ GridEqualsSolutionNext
               /\ \E c \in EditCells : \E v \in EditValues(c[1], c[2]) :
                     /\ HasFlag(grid[c[2]][c[1]].flags, CELL_WRITABLE)
                     /\ UpdateCell(c[1], c[2], v)
                     /\ grid'[c[2]][c[1]].value = v]_vars

C5_Witness ==
    /\ state = "Won"
    /\ GridEqualsSolution
    /\ Len(movements) >= MaxOpen
    /\ elapsed > from_secs(1)

\* C6: in state Won or Solved no session operation changes any field of the
\* session, and undo_last_move returns no coordinate
C6_TerminalFrozen ==
    /\ [](Terminal => undo_result = << >>)
    /\ [][Terminal /\ SessionOp => UNCHANGED sesvars]_vars

C6_Witness ==
    /\ state = "Solved"
    /\ steps = MaxSteps
    /\ movements # << >>
    /\ now = 0

\* C7: checks never exceeds MAX_CHECKS and hints never exceeds MAX_HINTS;
\* with the budget used up, check() and hint() change nothing
C7_BudgetsEnforced ==
    /\ [](checks <= MAX_CHECKS /\ hints <= MAX_HINTS)
    /\ [][checks = MAX_CHECKS /\ Check => UNCHANGED sesvars]_vars
    /\ [][hints = MAX_HINTS /\ (\E o \in HintOrders : Hint(o)) => UNCHANGED sesvars]_vars

C7_Witness ==
    /\ state = "Running"
    /\ checks = MAX_CHECKS
    /\ hints = MAX_HINTS
    /\ steps = MaxSteps
    /\ \E p \in Coords : CheckEligible(grid[p[1]][p[2]])
    /\ \E p \in Coords : grid[p[1]][p[2]].value = 0

\* C8: a clue cell keeps its generated value, which is its solution value,
\* and its flags; no cell's writable flag ever changes; update_cell on a clue
\* cell changes nothing
C8_LockedCellsImmutable ==
    /\ [](\A p \in Coords :
            IF Puzzle1[p[1]][p[2]] # 0
            THEN /\ grid[p[1]][p[2]] = CellNew(Puzzle1[p[1]][p[2]])
                 /\ grid[p[1]][p[2]].value = solution[p[1]][p[2]]
            ELSE HasFlag(grid[p[1]][p[2]].flags, CELL_WRITABLE))
    /\ [][\A c \in EditCells : \A v \in EditValues(c[1], c[2]) :
             ~HasFlag(grid[c[2]][c[1]].flags, CELL_WRITABLE) /\ UpdateCell(c[1], c[2], v)
                => UNCHANGED sesvars]_vars

C8_Witness ==
    /\ state = "Running"
    /\ steps = MaxSteps
    /\ hints = MAX_HINTS
    /\ checks = MAX_CHECKS
    /\ movements # << >>
    /\ \E p \in Coords : Puzzle1[p[1]][p[2]] = 0 /\ grid[p[1]][p[2]].value = 0

\* the operations C9 names as without effect on a paused session
PausedNoOp ==
    \/ \E c \in EditCells : \E v \in EditValues(c[1], c[2]) : UpdateCell(c[1], c[2], v)
    \/ UndoLastMove
    \/ Check
    \/ \E o \in HintOrders : Hint(o)
    \/ Complete
    \/ ClearBoard
    \/ Pause

\* C9: while Paused, every operation but toggle_pause changes nothing and
\* undo_last_move returns no coordinate; toggle_pause resumes the session
C9_PausedIsInert ==
    /\ [](state = "Paused" => undo_result = << >>)
    /\ [][state = "Paused" /\ PausedNoOp => UNCHANGED sesvars]_vars
    /\ [][state = "Paused" /\ TogglePause => state' = "Running"]_vars

C9_Witness ==
    /\ state = "Paused"
    /\ steps = MaxSteps
    /\ movements # << >>
    /\ \E p \in Coords : grid[p[1]][p[2]].value = 0

\* C10: load(save(s)) has the grid (values and flags), the solution, the
\* difficulty and the check and hint counts of s, and the elapsed time of s
\* cut to whole seconds
C10_SaveLoadRoundTrip ==
    LET r == load(save_bytes, now)
    IN /\ r.ok
       /\ r.game.grid = grid
       /\ r.game.solution = solution
       /\ r.game.difficulty = difficulty
       /\ r.game.checks = checks
       /\ r.game.hints = hints
       /\ r.game.elapsed = from_secs(as_secs(Elapsed))
       /\ r.game.elapsed <= Elapsed
       /\ Elapsed - r.game.elapsed < TicksPerSec

C10_Witness ==
    /\ state = "Running"
    /\ start = Some(1)
    /\ elapsed = from_secs(1)
    /\ movements = << >>
    /\ hints = MAX_HINTS
    /\ Deserialize(file).save.hints = MAX_HINTS
    /\ \E p \in Coords : HasFlag(grid[p[1]][p[2]].flags, CELL_CHECKED)

\* C11: undo_last_move with an empty history returns no coordinate and
\* changes no field of the session
C11_UndoOnEmptyHistory ==
    /\ [](movements = << >> => undo_result = << >>)
    /\ [][movements = << >> /\ UndoLastMove => UNCHANGED sesvars]_vars

\* an entry over a hinted cell was undone, then undo was called again: the
\* hinted cell is unchecked, the history is empty and nothing was saved
C11_Witness ==
    /\ state = "Running"
    /\ movements = << >>
    /\ hints = MAX_HINTS
    /\ \A p \in Coords : ~HasFlag(grid[p[1]][p[2]].flags, CELL_CHECKED)
    /\ file \in SavedGames
    /\ now = 0
    /\ steps = MaxSteps

----------------------------------------------------------------------------
(* Properties of Board::is_valid (checked under ValidSpec)                 *)

\* the cells of the 3x3 box that contains (row, col)
BoxOf(row, col) ==
    {p \in Coords : /\ p[1] \div SUBGRID_SIZE = row \div SUBGRID_SIZE
                    /\ p[2] \div SUBGRID_SIZE = col \div SUBGRID_SIZE}

\* the cells that share a row, a column or a box with (row, col)
Peers(row, col) ==
    {p \in Coords : p[1] = row \/ p[2] = col} \cup BoxOf(row, col)

\* C12: is_valid(row, col, value) returns true exactly when value is in no
\* cell of the row, of the column and of the 3x3 box of (row, col)
C12_IsValidExact ==
    pc = "is_valid_ret" =>
        (ret <=> \A p \in Peers(call[1], call[2]) : board[p[1]][p[2]] # val)

\* with 5 at (0, 0) only, 5 at the far end of row 0 is rejected
C12_Witness ==
    /\ pc = "is_valid_ret"
    /\ board = [EmptyBoard EXCEPT ![0][0] = 5]
    /\ call = <<0, 8>>
    /\ val = 5
    /\ ~ret

----------------------------------------------------------------------------
(* Properties of the session, continued (checked under Spec)               *)

\* C13: the solution grid is the one the session was built with, and no
\* operation of the session changes it
C13_SolutionImmutable ==
    /\ [](solution = Solution1)
    /\ [][solution' = solution]_vars

\* complete() ran over a wrong entry: the session is Solved, the entry is
\* marked incorrect, and the solution is still the generated one
C13_Witness ==
    /\ state = "Solved"
    /\ solution = Solution1
    /\ steps = MaxSteps
    /\ \E p \in Coords : /\ HasFlag(grid[p[1]][p[2]].flags, CELL_CHECKED)
                         /\ ~HasFlag(grid[p[1]][p[2]].flags, CELL_CORRECT)

\* C14 (as claimed): complete() on a Running session gives every unlocked
\* cell its solution value, moves the state to Solved, and leaves the cell
\* checked, with correct set exactly when the value it held was empty or
\* equal to the solution
C14_CompleteMarksEntries ==
    [][state = "Running" /\ Complete
          => /\ state' = "Solved"
             /\ \A p \in Coords :
                   HasFlag(grid[p[1]][p[2]].flags, CELL_WRITABLE)
                   => /\ grid'[p[1]][p[2]].value = solution[p[1]][p[2]]
                      /\ HasFlag(grid'[p[1]][p[2]].flags, CELL_CHECKED)
                      /\ HasFlag(grid'[p[1]][p[2]].flags, CELL_CORRECT)
                            <=> (\/ grid[p[1]][p[2]].value = 0
                                 \/ grid[p[1]][p[2]].value = solution[p[1]][p[2]])]_vars

\* the cell at p is unlocked, not empty and not yet verified
Unverified(p) ==
    /\ HasFlag(grid[p[1]][p[2]].flags, CELL_WRITABLE)
    /\ grid[p[1]][p[2]].value # 0
    /\ ~HasFlag(grid[p[1]][p[2]].flags, CELL_CHECKED)

\* C15: check() on a Running session with checks < MAX_CHECKS marks every
\* unlocked, non-empty, unverified cell as checked, correct exactly when its
\* value is the solution's; it leaves the other cells, every value and every
\* other field alone, and adds 1 to checks when it marked a cell, else 0
C15_CheckMarksUnverified ==
    [][state = "Running" /\ checks < MAX_CHECKS /\ Check
          => /\ \A p \in Coords :
                   IF Unverified(p)
                   THEN /\ grid'[p[1]][p[2]].value = grid[p[1]][p[2]].value
                        /\ HasFlag(grid'[p[1]][p[2]].flags, CELL_WRITABLE)
                        /\ HasFlag(grid'[p[1]][p[2]].flags, CELL_CHECKED)
                        /\ HasFlag(grid'[p[1]][p[2]].flags, CELL_CORRECT)
                              <=> grid[p[1]][p[2]].value = solution[p[1]][p[2]]
                   ELSE grid'[p[1]][p[2]] = grid[p[1]][p[2]]
             /\ checks' = checks + (IF \E p \in Coords : Unverified(p) THEN 1 ELSE 0)
             /\ UNCHANGED <<solution, state, movements, start, elapsed,
                            difficulty, hints>>]_vars

\* the last check of the budget marked right entries correct and a wrong
\* entry incorrect, and left the empty cell alone
C15_Witness ==
    /\ state = "Running"
    /\ checks = MAX_CHECKS
    /\ \E p \in Coords : /\ grid[p[1]][p[2]].value = solution[p[1]][p[2]]
                         /\ grid[p[1]][p[2]].flags = CELL_WRITABLE + CELL_CHECKED + CELL_CORRECT
    /\ \E p \in Coords : /\ grid[p[1]][p[2]].value \notin {0, solution[p[1]][p[2]]}
                         /\ grid[p[1]][p[2]].flags = CELL_WRITABLE + CELL_CHECKED
    /\ \E p \in Coords : grid[p[1]][p[2]] = CellNew(0)

\* the cell at p is unlocked and empty
EmptyUnlocked(p) ==
    /\ HasFlag(grid[p[1]][p[2]].flags, CELL_WRITABLE)
    /\ grid[p[1]][p[2]].value = 0

\* C16: hint() on a Running session with hints < MAX_HINTS changes exactly
\* one cell when an empty unlocked cell exists: such a cell gets its solution
\* value and is marked checked and correct, hints grows by 1, and nothing
\* else changes; with no empty unlocked cell it changes nothing
C16_HintFillsOneCell ==
    [][state = "Running" /\ hints < MAX_HINTS /\ (\E o \in HintOrders : Hint(o))
          => IF \E p \in Coords : EmptyUnlocked(p)
             THEN /\ \E p \in Coords :
                        /\ EmptyUnlocked(p)
                        /\ grid' = [grid EXCEPT ![p[1]][p[2]] =
                                      [value |-> solution[p[1]][p[2]],
                                       flags |-> CELL_WRITABLE + CELL_CHECKED + CELL_CORRECT]]
                  /\ hints' = hints + 1
                  /\ UNCHANGED <<solution, state, movements, start, elapsed,
                                 difficulty, checks>>
             ELSE UNCHANGED sesvars]_vars

\* one hint was taken on the fresh game: one hole is filled and verified,
\* other holes are still empty, and no move was recorded
C16_Witness ==
    /\ state = "Running"
    /\ hints = 1
    /\ checks = 0
    /\ movements = << >>
    /\ Cardinality({p \in Coords : EmptyUnlocked(p)}) = Cardinality(Holes1) - 1
    /\ \E p \in Coords :
          grid[p[1]][p[2]] = [value |-> solution[p[1]][p[2]],
                              flags |-> CELL_WRITABLE + CELL_CHECKED + CELL_CORRECT]

\* C17: an accepted update_cell(x, y, v) sets the cell's value to v, leaves
\* it unlocked with checked and correct cleared, appends the one Move
\* (x, y, previous value) to the history, and changes no other cell and no
\* counter
C17_AcceptedUpdate ==
    [][\A c \in EditCells : \A v \in EditValues(c[1], c[2]) :
          (/\ state = "Running"
           /\ HasFlag(grid[c[2]][c[1]].flags, CELL_WRITABLE)
           /\ UpdateCell(c[1], c[2], v))
          => /\ grid' = [grid EXCEPT ![c[2]][c[1]] = [value |-> v, flags |-> CELL_WRITABLE]]
             /\ movements' = movements \o
                   << [x |-> c[1], y |-> c[2], old |-> grid[c[2]][c[1]].value] >>
             /\ UNCHANGED <<solution, difficulty, checks, hints>>]_vars

\* a hinted cell was cleared, then cleared again: the second edit wrote 0
\* over 0, both edits are in the history, and the cell's flags are cleared
C17_Witness ==
    /\ state = "Running"
    /\ hints = MAX_HINTS
    /\ movements = << [x |-> 0, y |-> 0, old |-> solution[0][0]],
                      [x |-> 0, y |-> 0, old |-> 0] >>
    /\ grid[0][0] = CellNew(0)

\* the values of grid g
Values(g) == [y \in Idx |-> [x \in Idx |-> g[y][x].value]]

\* the values of grid g once the last Move of history h is taken back
Undone(g, h) == [Values(g) EXCEPT ![h[Len(h)].y][h[Len(h)].x] = h[Len(h)].old]

\* C18: undo_last_move on a Running session with a history removes the last
\* Move, puts its old value back at its coordinate, returns that coordinate
\* and changes no other value; so an accepted update_cell that does not win
\* is taken back by the undo that follows it, values and history alike
C18_UndoRestores ==
    /\ [](state = "Running" /\ movements # << >>
            => undo_result = << movements[Len(movements)].x, movements[Len(movements)].y >>)
    /\ [][state = "Running" /\ movements # << >> /\ UndoLastMove
            => /\ movements' = SubSeq(movements, 1, Len(movements) - 1)
               /\ Values(grid') = Undone(grid, movements)
               /\ \A p \in Coords : grid'[p[1]][p[2]].flags = grid[p[1]][p[2]].flags
               /\ UNCHANGED <<solution, state, start, elapsed, difficulty, checks, hints>>]_vars
    /\ [][\A c \in EditCells : \A v \in EditValues(c[1], c[2]) :
            (/\ state = "Running"
             /\ HasFlag(grid[c[2]][c[1]].flags, CELL_WRITABLE)
             /\ UpdateCell(c[1], c[2], v)
             /\ state' = "Running")
            => /\ Undone(grid', movements') = Values(grid)
               /\ SubSeq(movements', 1, Len(movements') - 1) = movements]_vars

\* an entry written over a hinted cell was taken back: the cell holds the
\* hinted digit again, unflagged, and the history is empty
C18_Witness ==
    /\ state = "Running"
    /\ hints = MAX_HINTS
    /\ grid[0][0] = [value |-> solution[0][0], flags |-> CELL_WRITABLE]
    /\ movements = << >>
    /\ file \in SavedGames
    /\ now = 0
    /\ steps = 3

\* C19: clear_board() on a Running session empties every unlocked cell and
\* changes nothing else (locked cells, flags, history, counters, state and
\* solution stay); on a session that is not Running it changes nothing
C19_ClearBoardFrame ==
    [][ClearBoard
          => /\ \A p \in Coords :
                   IF state = "Running" /\ HasFlag(grid[p[1]][p[2]].flags, CELL_WRITABLE)
                   THEN grid'[p[1]][p[2]] =
                            [value |-> 0, flags |-> grid[p[1]][p[2]].flags]
                   ELSE grid'[p[1]][p[2]] = grid[p[1]][p[2]]
             /\ UNCHANGED <<solution, state, movements, start, elapsed,
                            difficulty, checks, hints>>]_vars

\* the board was cleared after a hint and an edit: every unlocked cell is
\* empty, the hinted one still carries its flags, and the history is kept
C19_Witness ==
    /\ state = "Running"
    /\ hints = MAX_HINTS
    /\ checks = 2
    /\ movements # << >>
    /\ \A p \in Coords : Puzzle1[p[1]][p[2]] = 0 => grid[p[1]][p[2]].value = 0
    /\ \A p \in Coords : Puzzle1[p[1]][p[2]] # 0 => grid[p[1]][p[2]] = CellNew(Puzzle1[p[1]][p[2]])
    /\ \E p \in Coords :
          grid[p[1]][p[2]].flags = CELL_WRITABLE + CELL_CHECKED + CELL_CORRECT

\* the time the session reports now, and after the step
Reported ==
    IF state = "Running" THEN elapsed + (now - start.at) ELSE elapsed

ReportedNext ==
    IF state' = "Running" THEN elapsed' + (now' - start'.at) ELSE elapsed'

\* a step of the session in play or of the clock (not the load of a save)
PlayStep == SessionOp \/ SaveGame \/ Tick

\* C20: the reported elapsed time stays put while the session is not Running
\* (paused, or Won or Solved, where it keeps the value it had at the winning
\* update_cell or at complete()), never decreases, changes only with the
\* clock, and while Running grows with the clock from the last resume
C20_ElapsedFollowsRunning ==
    /\ [](state = "Running" => start.some /\ start.at <= now)
    /\ [][(/\ state # "Running" => ReportedNext = Reported
           /\ state = "Running" /\ state' # "Running" => elapsed' = Reported
           /\ ReportedNext >= Reported
           /\ now' = now => ReportedNext = Reported
           /\ state = "Running" /\ now' # now => ReportedNext - Reported = now' - now)
          \/ ~PlayStep]_vars

\* the session was paused after one tick and resumed one tick later: the
\* tick spent paused is not in the reported time
C20_Witness ==
    /\ state = "Running"
    /\ now = 2
    /\ start = Some(2)
    /\ elapsed = from_secs(1) + 1
    /\ Reported = from_secs(1) + 1

----------------------------------------------------------------------------
(* Board::count_solutions on its own                                       *)

\* the largest limit count_solutions is called with
MaxLimit == 3

\* a solved board without the cells that hold a digit of D
Erase(g, D) == [r \in Idx |-> [c \in Idx |-> IF g[r][c] \in D THEN 0 ELSE g[r][c]]]

\* a board with no repeated digit and no completion: (0, 0) can take no digit
DeadBoard == [Solution1 EXCEPT ![0][0] = 0, ![5][1] = 0, ![0][1] = 1]

\* the boards count_solutions is called on: full, with one, two or more
\* completions, and with none
CountBoards == {Erase(Solution1, D) : D \in SUBSET {1, 2}} \cup {Puzzle1, DeadBoard}

\* `let mut test_board = puzzle.clone(); test_board.count_solutions(limit)`
CountInit ==
    /\ pc = "solve_call"
    /\ rng = RngTable[1]
    /\ difficulty = "Easy"
    /\ board = EmptyBoard
    /\ puzzle \in CountBoards
    /\ test_board = puzzle
    /\ num_holes = 0
    /\ idx = 0
    /\ stack = << >>
    /\ call = <<0, 0>>
    /\ ret = FALSE
    /\ count = 0
    /\ limit \in 1 .. MaxLimit
    /\ caller = "count"
    /\ SessionDefault
    /\ now = 0
    /\ val = 0
    /\ file = << >>
    /\ steps = 0

CountNext == SolveCall \/ SolveReturn

CountSpec == CountInit /\ [][CountNext]_vars

----------------------------------------------------------------------------
(* Properties of count_solutions                                           *)

\* no digit twice in a row, a column or a box
Consistent(g) ==
    \A p \in Coords : g[p[1]][p[2]] # 0 =>
        \A q \in Peers(p[1], p[2]) \ {p} : g[q[1]][q[2]] # g[p[1]][p[2]]

\* the number of completions of g, counted from its last empty cell
RECURSIVE NumSolutions(_)
NumSolutions(g) ==
    LET E == {p \in 0 .. (SIZE * SIZE - 1) : g[p \div SIZE][p % SIZE] = 0}
    IN IF E = {} THEN 1
       ELSE LET p == CHOOSE x \in E : \A y \in E : y <= x
                row == p \div SIZE
                col == p % SIZE
                Free == {d \in Digits : \A q \in Peers(row, col) : g[q[1]][q[2]] # d}
                RECURSIVE Sum(_)
                Sum(S) == IF S = {} THEN 0
                          ELSE LET d == CHOOSE x \in S : TRUE
                               IN NumSolutions([g EXCEPT ![row][col] = d]) + Sum(S \ {d})
            IN Sum(Free)

\* C21: on a board without repeated digits, count_solutions(limit) returns
\* the number of completions or limit, whichever is smaller, and the counter
\* never passes the limit: once it is reached no further cell is tried
C21_CountIsMinOfLimit ==
    /\ count <= limit
    /\ count = limit => pc # "solve_call"
    /\ pc = "tested" /\ Consistent(puzzle) =>
          count = (IF NumSolutions(puzzle) < limit THEN NumSolutions(puzzle) ELSE limit)

\* a board with more completions than the limit: the count is the limit
C21_Witness ==
    /\ pc = "tested"
    /\ Consistent(puzzle)
    /\ limit > 1
    /\ count = limit
    /\ NumSolutions(puzzle) > limit

----------------------------------------------------------------------------
(* Board::generate on its own: fill_diagonals, then fill_remaining(0, 0)   *)

FillNext == FillDiagonals \/ FillCall \/ FillReturn

\* the calls of one thread follow one another: a step that can be taken is
\* taken
FillSpec == GenInit /\ [][FillNext]_vars /\ WF_vars(FillNext)

----------------------------------------------------------------------------
(* Properties of fill_remaining                                            *)

\* the digits the calls in progress have placed, on top of the seeded
\* diagonal boxes: the grid as it was on entry to the innermost call
EntryGrid ==
    LET Seeded == fill_diagonals(EmptyBoard, rng)
        Placed(r, c) == {i \in 1 .. Len(stack) :
                            /\ stack[i].kind = "loop"
                            /\ stack[i].row = r
                            /\ stack[i].col = c}
    IN [r \in Idx |-> [c \in Idx |->
          IF Placed(r, c) = {} THEN Seeded[r][c]
          ELSE LET f == stack[CHOOSE i \in Placed(r, c) : TRUE]
               IN f.numbers[f.k]]]

\* C22: fill_remaining(0, 0) terminates, it returns true with no empty cell
\* left, and a call that returns false leaves the grid as it was on entry:
\* only the digits of the calls still in progress are on the seeded board
C22_FillSucceedsAndBacktracks ==
    /\ <>(pc = "generated")
    /\ [](pc = "generated" => ret /\ IsFull(board))
    /\ [](pc = "fill_call" \/ (pc = "fill_ret" /\ ~ret) => board = EntryGrid)

\* a call on an empty cell found every digit failing and returned false to
\* a caller that had placed a digit
C22_Witness ==
    /\ pc = "fill_ret"
    /\ ~ret
    /\ stack # << >>
    /\ Top(stack).kind = "loop"
    /\ board = EntryGrid

\* C23 (as claimed): an unlocked cell flagged checked and correct holds its
\* solution value, in every state the session operations reach
C23_VerifiedCorrectHoldsSolution ==
    \A p \in Coords :
        (/\ HasFlag(grid[p[1]][p[2]].flags, CELL_WRITABLE)
         /\ HasFlag(grid[p[1]][p[2]].flags, CELL_CHECKED)
         /\ HasFlag(grid[p[1]][p[2]].flags, CELL_CORRECT))
        => grid[p[1]][p[2]].value = solution[p[1]][p[2]]

\* C24: no cell has CELL_CORRECT set without CELL_CHECKED, so each cell is
\* unknown (neither flag), verified correct (both) or verified incorrect
\* (checked only)
C24_FlagsAreTriState ==
    \A p \in Coords :
        HasFlag(grid[p[1]][p[2]].flags, CELL_CORRECT)
        => HasFlag(grid[p[1]][p[2]].flags, CELL_CHECKED)

\* after a check one entry is verified correct, another verified incorrect
C24_Witness ==
    /\ checks > 0
    /\ \E p \in Coords : /\ HasFlag(grid[p[1]][p[2]].flags, CELL_CHECKED)
                         /\ HasFlag(grid[p[1]][p[2]].flags, CELL_CORRECT)
    /\ \E p \in Coords : /\ HasFlag(grid[p[1]][p[2]].flags, CELL_CHECKED)
                         /\ ~HasFlag(grid[p[1]][p[2]].flags, CELL_CORRECT)
    /\ \E p \in Coords : /\ ~HasFlag(grid[p[1]][p[2]].flags, CELL_CHECKED)
                         /\ ~HasFlag(grid[p[1]][p[2]].flags, CELL_CORRECT)

\* C25: the session built from the Save of any session is Running with an
\* empty history, whatever the state and the history of the session that
\* was saved; so is the session load_game installs, and its first
\* undo_last_move returns no coordinate
C25_LoadedIsRunningWithoutHistory ==
    /\ [](LET r == from_save(SaveOf(grid, solution, difficulty, Elapsed, checks, hints), now)
          IN r.state = "Running" /\ r.movements = << >>)
    /\ [][(state' = "Running" /\ movements' = << >> /\ undo_result' = << >>)
          \/ ~LoadGame]_vars

\* the session loaded from the save of a game that was won with two edits:
\* it is Running, its grid is complete and unverified, its history is empty
C25_Witness ==
    /\ state = "Running"
    /\ movements = << >>
    /\ GridEqualsSolution
    /\ Deserialize(file).save.grid = grid
    /\ \A p \in Coords : ~HasFlag(grid[p[1]][p[2]].flags, CELL_CHECKED)

\* C26: start is None exactly when the state is Paused; a Running session
\* has a start, so elapsed() and toggle_pause never unwrap None
C26_StartAbsentIffPaused ==
    /\ start.some <=> state # "Paused"
    /\ state = "Running" => start.some

\* a session that was paused after one tick of play and resumed
C26_Witness ==
    /\ state = "Running"
    /\ start.some
    /\ start.at > 0
    /\ elapsed % TicksPerSec # 0

\* C27: every digit of the puzzle generate_puzzle works on and returns is
\* the seed board's digit at that cell; the returned puzzle has at most
\* min(num_holes, 81) empty cells; and a cell of the session built from it
\* holds the puzzle's value and is writable exactly when that value is empty
C27_PuzzleIsSubGrid ==
    /\ BoardReturned =>
          \A p \in Coords : puzzle[p[1]][p[2]] # 0 => puzzle[p[1]][p[2]] = board[p[1]][p[2]]
    /\ PuzzleReturned =>
          /\ NumEmpty(puzzle) <= (IF num_holes < SIZE * SIZE THEN num_holes ELSE SIZE * SIZE)
          /\ \A p \in Coords :
                /\ grid[p[1]][p[2]].value = puzzle[p[1]][p[2]]
                /\ HasFlag(grid[p[1]][p[2]].flags, CELL_WRITABLE) <=> puzzle[p[1]][p[2]] = 0

\* the session of a puzzle that kept some removals and lost others: it has
\* writable cells and locked cells
C27_Witness ==
    /\ pc = "session"
    /\ NumEmpty(puzzle) > 0
    /\ NumEmpty(puzzle) < num_holes
    /\ \E p \in Coords : HasFlag(grid[p[1]][p[2]].flags, CELL_WRITABLE)
    /\ \E p \in Coords : /\ ~HasFlag(grid[p[1]][p[2]].flags, CELL_WRITABLE)
                         /\ grid[p[1]][p[2]].value = board[p[1]][p[2]]

====
